---- MODULE Spec2Model ----
(***************************************************************************)
(* Model of get_paths.py: the bounded DFS path generator, the prefix-tree  *)
(* deduplicator, the relation inverter and the per-class combine/batch     *)
(* loop of sample_and_combine_paths.                                       *)
(*                                                                         *)
(* Node identifiers are the integers 1..NumNodes (their order stands for   *)
(* the string order that sorted() uses).  An Optional[int] argument is a   *)
(* sequence: <<>> is None and <<n>> is the integer n.                      *)
(***************************************************************************)
EXTENDS Integers, Sequences, FiniteSets

VARIABLES
    child_to_parents,     \* dict child -> list of parents (main, line 674)
    parent_to_children,   \* dict parent -> list of children (main, line 681)
    which,                \* mapping handed to the generator: "up" | "down"
    node,                 \* start node of the generator / current seed class
    min_depth,            \* Optional[int]
    max_depth,            \* Optional[int]
    max_paths,            \* Optional[int] (max_paths_per_class in the run)
    stack,                \* generate_paths_dfs: list of <<current, path>>
    paths_generated,      \* generate_paths_dfs: counter
    yielded,              \* the paths the generator has yielded so far
    gstate,               \* generator position: "idle" | "running" | "done"
    trie,                 \* PathTrie: trie node records keyed by their path from the root
    inserted,             \* the paths handed to PathTrie.insert so far, in order
    all_paths,            \* what PathTrie.traverse returned
    pc,                   \* control position of the script
    direction,            \* argument of sample_and_combine_paths
    batch_size,           \* argument of sample_and_combine_paths
    classes,              \* islice(class_counts.items(), num_classes): the seed nodes
    idx,                  \* position of the current class in classes
    upward_paths,         \* raw upward paths of the current class
    unique_upward_paths,
    downward_paths,       \* raw downward paths of the current class
    unique_downward_paths,
    emitted,              \* paths the combine loop has appended so far
    batch_paths,          \* the batch buffer
    num_batches,
    combined_paths_count,
    class_files,          \* batch files attempted in the current class directory
    logs,                 \* the log_data records produced, one per class
    pbar                  \* classes completed (pbar.update)

genArgs == <<which, node, min_depth, max_depth, max_paths>>

mapVars == <<child_to_parents, parent_to_children>>

dfsVars == <<stack, paths_generated, yielded, gstate>>

trieVars == <<trie, inserted, all_paths>>

runArgs == <<direction, batch_size, classes>>

pathVars == <<upward_paths, unique_upward_paths, downward_paths,
              unique_downward_paths>>

batchVars == <<emitted, batch_paths, num_batches, combined_paths_count,
               class_files>>

runVars == <<runArgs, idx, pathVars, batchVars, logs, pbar>>

vars == <<mapVars, genArgs, dfsVars, trieVars, pc, runVars>>

-----------------------------------------------------------------------------
(* Bounds of the model *)

NumNodes == 3

MaxEdges == 3

MaxDepthArg == 3

MaxPathsArg == 2

NumTrieKeys == 2

MaxTriePathLen == 2

MaxInserts == 3

Nodes == 1..NumNodes

-----------------------------------------------------------------------------
(* Values *)

None == <<>>

Some(n) == <<n>>

\* Python truthiness of an Optional[int]: None and 0 are falsy
Truthy(o) == IF o = None THEN FALSE ELSE o[1] # 0

Range(s) == {s[i] : i \in 1..Len(s)}

\* every order random.shuffle can leave the list s in
Shuffles(s) ==
    LET n == Len(s)
        Bij == {q \in [1..n -> 1..n] : \A i, j \in 1..n : i # j => q[i] # q[j]}
    IN  {[i \in 1..n |-> s[q[i]]] : q \in Bij}

\* sequences over S of length at most k
SeqsUpTo(S, k) == UNION {[1..n -> S] : n \in 0..k}

\* sorted(S) for a finite set of node identifiers
RECURSIVE SortedSeq(_)
SortedSeq(S) ==
    IF S = {} THEN <<>>
    ELSE LET m == CHOOSE x \in S : \A y \in S : x <= y
         IN  <<m>> \o SortedSeq(S \ {m})

-----------------------------------------------------------------------------
(* TrieNode and PathTrie.  A trie is a function from the path that leads   *)
(* to a trie node (<<>> for the root) to that node's record; children is   *)
(* the key list of the node's dict, in insertion order.                    *)

\* TrieNode.__init__
TrieNode == [children |-> <<>>, is_end_of_path |-> FALSE]

\* PathTrie.__init__
EmptyTrie == [p \in {<<>>} |-> TrieNode]

IsPrefix(p, q) == Len(p) <= Len(q) /\ SubSeq(q, 1, Len(p)) = p

IsProperPrefix(p, q) == Len(p) < Len(q) /\ SubSeq(q, 1, Len(p)) = p

\* a variant that never finds the child, so insert always makes a new TrieNode
HasChildNever(t, here, entity) == FALSE

\* line 71: entity in node.children
HasChild(t, here, entity) == entity \in Range(t[here].children)

\* line 72: node.children[entity] = TrieNode()
SetChild(t, here, entity) ==
    LET child == Append(here, entity)
        kept  == {p \in DOMAIN t : ~IsPrefix(child, p)}
    IN  [p \in kept \cup {child} |->
            IF p = child THEN TrieNode
            ELSE IF p = here
                 THEN [t[p] EXCEPT !.children =
                          IF entity \in Range(@) THEN @ ELSE Append(@, entity)]
                 ELSE t[p]]

\* lines 69-74: the loop of insert from position k of the path on
RECURSIVE InsertFrom(_, _, _)
InsertFrom(t, path, k) ==
    IF k > Len(path)
    THEN [t EXCEPT ![path].is_end_of_path = TRUE]
    ELSE LET here == SubSeq(path, 1, k - 1)
         IN  InsertFrom(IF HasChild(t, here, path[k]) THEN t
                        ELSE SetChild(t, here, path[k]),
                        path, k + 1)

\* PathTrie.insert
insert(t, path) == InsertFrom(t, path, 1)

\* a variant that reports every node where an inserted path ends
IsCompletePathAnyEnd(n) == n.is_end_of_path

\* line 101: a path ends here and the node has no children
IsCompletePath(n) == n.is_end_of_path /\ n.children = <<>>

\* lines 100-109: traverse at the node reached by path; k is the position in
\* the node's children the for loop has reached
RECURSIVE TraverseFrom(_, _, _)
TraverseFrom(t, path, k) ==
    LET n == t[path]
    IN  IF k = 0
        THEN (IF IsCompletePath(n) THEN <<path>> ELSE <<>>)
             \o TraverseFrom(t, path, 1)
        ELSE IF k > Len(n.children) THEN <<>>
        ELSE TraverseFrom(t, Append(path, n.children[k]), 0)
             \o TraverseFrom(t, path, k + 1)

\* PathTrie.traverse()
traverse(t) == TraverseFrom(t, <<>>, 0)

\* lines 291-294: a fresh trie, every path inserted, then traversed
RECURSIVE InsertAll(_, _, _)
InsertAll(t, paths, k) ==
    IF k > Len(paths) THEN t ELSE InsertAll(insert(t, paths[k]), paths, k + 1)

\* a variant that skips the trie and keeps the raw list
UniquePathsRaw(paths) == paths

UniquePaths(paths) == traverse(InsertAll(EmptyTrie, paths, 1))

-----------------------------------------------------------------------------
(* invert_mapping *)

\* a variant that reads only the first parent of each child
ChildrenOfFirstParent(c2p, parent) ==
    {child \in DOMAIN c2p : c2p[child] # <<>> /\ c2p[child][1] = parent}

\* the set parent_to_children[parent] collects
ChildrenOf(c2p, parent) ==
    {child \in DOMAIN c2p : parent \in Range(c2p[child])}

invert_mapping(c2p) ==
    LET parents == UNION {Range(c2p[child]) : child \in DOMAIN c2p}
    IN  [parent \in parents |-> SortedSeq(ChildrenOf(c2p, parent))]

-----------------------------------------------------------------------------
(* Input mappings: a dict built from a bounded list of (child, parent)     *)
(* pairs, plus keys whose list is empty.  Lists may repeat a neighbour,    *)
(* may name the key itself and may close cycles.                           *)

EdgeLists == SeqsUpTo(Nodes \X Nodes, MaxEdges)

MappingOf(edges, keys) ==
    LET srcs == {edges[i][1] : i \in 1..Len(edges)}
        From(n) == SelectSeq(edges, LAMBDA e : e[1] = n)
    IN  [n \in keys \cup srcs |-> [i \in 1..Len(From(n)) |-> From(n)[i][2]]]

\* m is one of the input mappings
IsMapping(m) == \E es \in EdgeLists : \E ks \in SUBSET Nodes : m = MappingOf(es, ks)

\* the hierarchy of the end-to-end examples: B -> [A], C -> [A], D -> [B, C]
\* with A, B, C, D written 1, 2, 3, 4
ExampleHierarchy == [child \in {2, 3, 4} |-> IF child = 4 THEN <<2, 3>> ELSE <<1>>]

DepthArgs == {None} \cup {Some(n) : n \in 0..MaxDepthArg}

PathsArgs == {None} \cup {Some(n) : n \in 0..MaxPathsArg}

EmptyMapping == [n \in {} |-> <<>>]

-----------------------------------------------------------------------------
(* generate_paths_dfs *)

\* the mapping argument of the running generator
mapping == IF which = "up" THEN child_to_parents ELSE parent_to_children

Top == stack[Len(stack)]

Popped == SubSeq(stack, 1, Len(stack) - 1)

\* a variant that stops one path late
LimitReachedLate ==
    IF Truthy(max_paths) THEN paths_generated > max_paths[1] ELSE FALSE

\* line 152: the max_paths test at the head of the loop
LimitReached ==
    IF Truthy(max_paths) THEN paths_generated >= max_paths[1] ELSE FALSE

\* line 158
TooDeep(path) ==
    IF Truthy(max_depth) THEN Len(path) > max_depth[1] ELSE FALSE

\* a variant that also takes a path that has reached max_depth as complete
IsCompleteOrAtLimit(current) ==
    IF current \notin DOMAIN mapping THEN TRUE
    ELSE IF mapping[current] = <<>> THEN TRUE
    ELSE IF max_depth = None THEN FALSE
    ELSE Len(Top[2]) = max_depth[1]

\* line 162
IsComplete(current) ==
    IF current \notin DOMAIN mapping THEN TRUE ELSE mapping[current] = <<>>

\* line 164
MeetsMinDepth(path) ==
    IF min_depth = None THEN TRUE ELSE Len(path) >= min_depth[1]

\* a variant without the membership test
MayExtendAlways(adjacent, path) == TRUE

\* line 173
MayExtend(adjacent, path) == adjacent \notin Range(path)

\* a variant that pushes a neighbour already in the path without extending
\* the path, instead of dropping it
PushedRevisiting(adjacent_nodes, path) ==
    [i \in 1..Len(adjacent_nodes) |->
        <<adjacent_nodes[i],
          IF adjacent_nodes[i] \in Range(path) THEN path
          ELSE Append(path, adjacent_nodes[i])>>]

\* a variant that leaves the for loop after the first neighbour pushed
PushedFirstOnly(adjacent_nodes, path) ==
    LET fresh == SelectSeq(adjacent_nodes, LAMBDA a : MayExtend(a, path))
    IN  [i \in 1..(IF fresh = <<>> THEN 0 ELSE 1) |->
            <<fresh[i], Append(path, fresh[i])>>]

\* lines 172-174: the entries pushed for the shuffled neighbour list
Pushed(adjacent_nodes, path) ==
    LET fresh == SelectSeq(adjacent_nodes, LAMBDA a : MayExtend(a, path))
    IN  [i \in 1..Len(fresh) |-> <<fresh[i], Append(path, fresh[i])>>]

\* line 151: the stack is empty, the generator is exhausted
DfsExhausted ==
    /\ gstate = "running"
    /\ stack = <<>>
    /\ gstate' = "done"
    /\ UNCHANGED <<mapVars, genArgs, stack, paths_generated, yielded>>
    /\ UNCHANGED <<trieVars, pc, runVars>>

\* lines 152-153: break
DfsBreak ==
    /\ gstate = "running"
    /\ stack # <<>>
    /\ LimitReached
    /\ gstate' = "done"
    /\ UNCHANGED <<mapVars, genArgs, stack, paths_generated, yielded>>
    /\ UNCHANGED <<trieVars, pc, runVars>>

\* lines 155-159: pop an entry whose path exceeds max_depth
DfsSkipDeep ==
    /\ gstate = "running"
    /\ stack # <<>>
    /\ ~LimitReached
    /\ TooDeep(Top[2])
    /\ stack' = Popped
    /\ UNCHANGED <<mapVars, genArgs, paths_generated, yielded, gstate>>
    /\ UNCHANGED <<trieVars, pc, runVars>>

\* lines 155-167: pop a complete path and yield it
DfsYield ==
    /\ gstate = "running"
    /\ stack # <<>>
    /\ ~LimitReached
    /\ ~TooDeep(Top[2])
    /\ IsComplete(Top[1])
    /\ MeetsMinDepth(Top[2])
    /\ stack' = Popped
    /\ yielded' = Append(yielded, Top[2])
    /\ paths_generated' = paths_generated + 1
    /\ UNCHANGED <<mapVars, genArgs, gstate>>
    /\ UNCHANGED <<trieVars, pc, runVars>>

\* lines 155-167: pop a complete path shorter than min_depth
DfsDropShort ==
    /\ gstate = "running"
    /\ stack # <<>>
    /\ ~LimitReached
    /\ ~TooDeep(Top[2])
    /\ IsComplete(Top[1])
    /\ ~MeetsMinDepth(Top[2])
    /\ stack' = Popped
    /\ UNCHANGED <<mapVars, genArgs, paths_generated, yielded, gstate>>
    /\ UNCHANGED <<trieVars, pc, runVars>>

\* lines 155-174: pop, shuffle the neighbour list in place, push the extensions
DfsExpand ==
    /\ gstate = "running"
    /\ stack # <<>>
    /\ ~LimitReached
    /\ ~TooDeep(Top[2])
    /\ ~IsComplete(Top[1])
    /\ \E adjacent_nodes \in Shuffles(mapping[Top[1]]) :
          /\ stack' = Popped \o Pushed(adjacent_nodes, Top[2])
          /\ IF which = "up"
             THEN /\ child_to_parents' =
                        [child_to_parents EXCEPT ![Top[1]] = adjacent_nodes]
                  /\ UNCHANGED parent_to_children
             ELSE /\ parent_to_children' =
                        [parent_to_children EXCEPT ![Top[1]] = adjacent_nodes]
                  /\ UNCHANGED child_to_parents
    /\ UNCHANGED <<genArgs, paths_generated, yielded, gstate>>
    /\ UNCHANGED <<trieVars, pc, runVars>>

DfsStep ==
    \/ DfsExhausted
    \/ DfsBreak
    \/ DfsSkipDeep
    \/ DfsYield
    \/ DfsDropShort
    \/ DfsExpand

\* sample_and_combine_paths is not running
RunIdle ==
    /\ direction = "upward"
    /\ batch_size = 1
    /\ classes = <<>>
    /\ idx = 0
    /\ upward_paths = <<>>
    /\ unique_upward_paths = <<>>
    /\ downward_paths = <<>>
    /\ unique_downward_paths = <<>>
    /\ emitted = 0
    /\ batch_paths = <<>>
    /\ num_batches = 0
    /\ combined_paths_count = 0
    /\ class_files = <<>>
    /\ logs = <<>>
    /\ pbar = 0

\* lines 148-149: the state of a generator just created
DfsInit ==
    /\ \/ IsMapping(child_to_parents)
       \/ child_to_parents = ExampleHierarchy
    /\ parent_to_children = invert_mapping(child_to_parents)
    /\ which \in {"up", "down"}
    /\ node \in Nodes \cup DOMAIN parent_to_children
    /\ min_depth \in DepthArgs
    /\ max_depth \in DepthArgs
    /\ max_paths \in PathsArgs
    /\ stack = <<<<node, <<node>>>>>>
    /\ paths_generated = 0
    /\ yielded = <<>>
    /\ gstate = "running"
    /\ trie = EmptyTrie
    /\ inserted = <<>>
    /\ all_paths = <<>>
    /\ RunIdle
    /\ pc = "generate"

DfsSpec == DfsInit /\ [][DfsStep]_vars

\* list(generator) keeps calling next() until the generator returns
DfsFairSpec == DfsSpec /\ WF_vars(DfsStep)

-----------------------------------------------------------------------------
(* Properties of generate_paths_dfs *)

NoRepeat(path) == \A i, j \in 1..Len(path) : i # j => path[i] # path[j]

\* some node of the path lists a node at or before it in the path: an edge
\* the traversal refused to follow (a cycle or a self-loop)
HasBackEdge(path) ==
    \E i \in 1..Len(path) : \E j \in 1..i :
        /\ path[i] \in DOMAIN mapping
        /\ path[j] \in Range(mapping[path[i]])

\* C1: every yielded path starts with the start node and repeats no node
C1_PathsAcyclic ==
    \A i \in 1..Len(yielded) :
        /\ yielded[i] # <<>>
        /\ yielded[i][1] = node
        /\ NoRepeat(yielded[i])

C1_Witness ==
    /\ gstate = "done"
    /\ \E i \in 1..Len(yielded) : Len(yielded[i]) >= 2 /\ HasBackEdge(yielded[i])

\* C2: every yielded path has at least min_depth nodes when min_depth is set
\* and at most max_depth nodes when max_depth is set
C2_DepthBounds ==
    \A i \in 1..Len(yielded) :
        /\ min_depth # None => Len(yielded[i]) >= min_depth[1]
        /\ max_depth # None => Len(yielded[i]) <= max_depth[1]

\* a loop iteration that pops a stack entry
DfsPop == DfsSkipDeep \/ DfsYield \/ DfsDropShort \/ DfsExpand

\* C3: with max_paths set, at most max_paths paths are yielded, and once
\* max_paths paths are yielded no stack entry is popped any more
C3_MaxPathsRespected ==
    max_paths # None =>
        /\ Len(yielded) <= max_paths[1]
        /\ Len(yielded) >= max_paths[1] => ~ENABLED DfsPop

ArgsUnset == min_depth = None /\ max_depth = None /\ max_paths = None

\* C4: with min_depth, max_depth and max_paths unset the generator terminates
C4_Terminates == ArgsUnset ~> (gstate = "done")

C4_Witness ==
    /\ ArgsUnset
    /\ gstate = "done"
    /\ \E i \in 1..Len(yielded) : HasBackEdge(yielded[i])


\* the second end-to-end example: seed A, downward, max_depth = 2
IsExampleRun ==
    /\ child_to_parents = ExampleHierarchy
    /\ which = "down"
    /\ node = 1
    /\ min_depth = None
    /\ max_depth = Some(2)
    /\ max_paths = None

\* C9 as stated: the example run produces exactly [A,B] and [A,C], and the
\* unique downward path count is 2
C9_ExampleAsClaimed ==
    (IsExampleRun /\ gstate = "done") =>
        /\ Range(yielded) = {<<1, 2>>, <<1, 3>>}
        /\ Len(UniquePaths(yielded)) = 2

\* C9 amended: the example run yields no path at all (B and C have children,
\* and the paths through them to D exceed max_depth), so the unique count is 0
C9_ExampleYieldsNothing ==
    IsExampleRun =>
        /\ yielded = <<>>
        /\ gstate = "done" => Len(UniquePaths(yielded)) = 0

C9_Witness ==
    /\ IsExampleRun
    /\ gstate = "done"
    /\ parent_to_children[1] \in {<<2, 3>>, <<3, 2>>}
    /\ parent_to_children[2] = <<4>>

-----------------------------------------------------------------------------
(* PathTrie on its own: any bounded sequence of insert calls on a fresh    *)
(* trie, then traverse                                                     *)

TriePaths == SeqsUpTo(1..NumTrieKeys, MaxTriePathLen)

TrieInit ==
    /\ child_to_parents = EmptyMapping
    /\ parent_to_children = EmptyMapping
    /\ which = "up"
    /\ node = 1
    /\ min_depth = None
    /\ max_depth = None
    /\ max_paths = None
    /\ stack = <<>>
    /\ paths_generated = 0
    /\ yielded = <<>>
    /\ gstate = "idle"
    /\ trie = EmptyTrie
    /\ inserted = <<>>
    /\ all_paths = <<>>
    /\ RunIdle
    /\ pc = "trie"

TrieInsert ==
    /\ pc = "trie"
    /\ Len(inserted) < MaxInserts
    /\ \E path \in TriePaths :
          /\ trie' = insert(trie, path)
          /\ inserted' = Append(inserted, path)
    /\ UNCHANGED <<mapVars, genArgs, dfsVars, all_paths, pc, runVars>>

TrieTraverse ==
    /\ pc = "trie"
    /\ all_paths' = traverse(trie)
    /\ pc' = "traversed"
    /\ UNCHANGED <<mapVars, genArgs, dfsVars, trie, inserted, runVars>>

TrieNext == TrieInsert \/ TrieTraverse

TrieSpec == TrieInit /\ [][TrieNext]_vars

\* C5: traverse returns pairwise distinct entries, each of them an inserted
\* sequence, and every inserted sequence that is not a proper prefix of
\* another inserted sequence exactly once
C5_TraverseUnique ==
    pc = "traversed" =>
        /\ NoRepeat(all_paths)
        /\ \A i \in 1..Len(all_paths) : all_paths[i] \in Range(inserted)
        /\ \A p \in Range(inserted) :
              (~\E q \in Range(inserted) : IsProperPrefix(p, q)) =>
                  Cardinality({i \in 1..Len(all_paths) : all_paths[i] = p}) = 1

C5_Witness ==
    /\ pc = "traversed"
    /\ Len(all_paths) >= 2
    /\ \E i, j \in 1..Len(inserted) :
          i # j /\ inserted[i] = inserted[j] /\ inserted[i] \in Range(all_paths)

-----------------------------------------------------------------------------
(* invert_mapping on its own: main() loads child_to_parents and inverts it *)

InvertInit ==
    /\ IsMapping(child_to_parents)
    /\ parent_to_children = EmptyMapping
    /\ which = "up"
    /\ node = 1
    /\ min_depth = None
    /\ max_depth = None
    /\ max_paths = None
    /\ stack = <<>>
    /\ paths_generated = 0
    /\ yielded = <<>>
    /\ gstate = "idle"
    /\ trie = EmptyTrie
    /\ inserted = <<>>
    /\ all_paths = <<>>
    /\ RunIdle
    /\ pc = "loaded"

\* main, line 681
Invert ==
    /\ pc = "loaded"
    /\ parent_to_children' = invert_mapping(child_to_parents)
    /\ pc' = "inverted"
    /\ UNCHANGED <<child_to_parents, genArgs, dfsVars, trieVars, runVars>>

InvertSpec == InvertInit /\ [][Invert]_vars

\* number of positions of list s that hold x
Count(x, s) == Cardinality({i \in 1..Len(s) : s[i] = x})

\* mapping.get(key, [])
ListOf(m, key) == IF key \in DOMAIN m THEN m[key] ELSE <<>>

\* C8: child c is in the list of parent p exactly once if p is among the
\* parents of c and not at all otherwise; an empty input gives an empty output
C8_InvertExact ==
    pc = "inverted" =>
        /\ DOMAIN parent_to_children \subseteq Nodes
        /\ \A p \in Nodes : \A c \in Nodes :
              Count(c, ListOf(parent_to_children, p)) =
                  IF p \in Range(ListOf(child_to_parents, c)) THEN 1 ELSE 0
        /\ \A p \in DOMAIN parent_to_children :
              Range(parent_to_children[p]) \subseteq Nodes
        /\ child_to_parents = EmptyMapping => parent_to_children = EmptyMapping

C8_Witness ==
    /\ pc = "inverted"
    /\ \E c \in DOMAIN child_to_parents : ~NoRepeat(child_to_parents[c])
    /\ \E p \in DOMAIN parent_to_children : Len(parent_to_children[p]) >= 2

-----------------------------------------------------------------------------
(* main and sample_and_combine_paths *)

Reverse(s) == [i \in 1..Len(s) |-> s[Len(s) + 1 - i]]

DropLast(s) == SubSeq(s, 1, Len(s) - 1)

\* a variant that keeps the seed at the tail of the reversed upward path
CombinedPathKeepingSeed(up_path, down_path) == Reverse(up_path) \o down_path

\* lines 358-360: reversed_up_path + down_path
CombinedPath(up_path, down_path) == DropLast(Reverse(up_path)) \o down_path

\* line 419: up_path[::-1]
ReversedUpPath(up_path) == Reverse(up_path)

\* lines 356-359, 418, 474: how many paths the combine loop appends
NumToEmit ==
    CASE direction = "both" ->
            Len(unique_upward_paths) * Len(unique_downward_paths)
      [] direction = "upward" -> Len(unique_upward_paths)
      [] direction = "downward" -> Len(unique_downward_paths)
      [] OTHER -> 0

\* a variant whose outer loop variable stays at the first upward path
UpOfFirst(k) == unique_upward_paths[1]

\* the upward and the downward path of the k-th pass of the nested loops
UpOf(k) == unique_upward_paths[((k - 1) \div Len(unique_downward_paths)) + 1]

DownOf(k) == unique_downward_paths[((k - 1) % Len(unique_downward_paths)) + 1]

\* lines 360, 419, 475: the k-th path appended to batch_paths
EmittedPath(k) ==
    CASE direction = "both" -> CombinedPath(UpOf(k), DownOf(k))
      [] direction = "upward" -> ReversedUpPath(unique_upward_paths[k])
      [] direction = "downward" -> unique_downward_paths[k]

\* a variant that lets the buffer grow one past batch_size
BatchFullLate(batch) == Len(batch) = batch_size + 1

\* lines 365, 423, 478
BatchFull(batch) == Len(batch) = batch_size

\* random.sample(paths, k): k positions without replacement, in drawn order
Samples(paths, k) ==
    LET n == Len(paths)
        Inj == {q \in [1..k -> 1..n] : \A i, j \in 1..k : i # j => q[i] # q[j]}
    IN  {[i \in 1..k |-> paths[q[i]]] : q \in Inj}

\* lines 280-286, 317-325
Sampled(paths) ==
    IF Truthy(max_paths)
    THEN IF Len(paths) > max_paths[1] THEN Samples(paths, max_paths[1])
         ELSE {paths}
    ELSE {paths}

ValidDirection == direction \in {"upward", "downward", "both"}

\* lines 252-266: the next class of the loop
ClassStart ==
    /\ pc = "loop"
    /\ idx < Len(classes)
    /\ idx' = idx + 1
    /\ node' = classes[idx + 1]
    /\ upward_paths' = <<>>
    /\ unique_upward_paths' = <<>>
    /\ class_files' = <<>>
    /\ pc' = "upward"
    /\ UNCHANGED <<mapVars, which, min_depth, max_depth, max_paths, dfsVars,
                   trieVars, runArgs, downward_paths, unique_downward_paths,
                   emitted, batch_paths, num_batches, combined_paths_count,
                   logs, pbar>>

\* the frame of a generator created for mapping w (lines 148-149)
StartGenerator(w) ==
    /\ which' = w
    /\ stack' = <<<<node, <<node>>>>>>
    /\ paths_generated' = 0
    /\ yielded' = <<>>
    /\ gstate' = "running"

\* the generator is dropped once list() has drained it
DropGenerator ==
    /\ stack' = <<>>
    /\ paths_generated' = 0
    /\ yielded' = <<>>
    /\ gstate' = "idle"

\* lines 267-276
UpwardGenerate ==
    /\ pc = "upward"
    /\ gstate = "idle"
    /\ direction \in {"upward", "both"}
    /\ StartGenerator("up")
    /\ UNCHANGED <<mapVars, node, min_depth, max_depth, max_paths, trieVars, pc,
                   runVars>>

\* lines 276-297: list(generator), sampling, trie insertion and traversal
UpwardCollect ==
    /\ pc = "upward"
    /\ gstate = "done"
    /\ \E sample \in Sampled(yielded) :
          /\ upward_paths' = sample
          /\ unique_upward_paths' = UniquePaths(sample)
    /\ DropGenerator
    /\ downward_paths' = <<>>
    /\ unique_downward_paths' = <<>>
    /\ pc' = "downward"
    /\ UNCHANGED <<mapVars, genArgs, trieVars, runArgs, idx, batchVars, logs,
                   pbar>>

\* lines 298-303
UpwardSkip ==
    /\ pc = "upward"
    /\ direction \notin {"upward", "both"}
    /\ downward_paths' = <<>>
    /\ unique_downward_paths' = <<>>
    /\ pc' = "downward"
    /\ UNCHANGED <<mapVars, genArgs, dfsVars, trieVars, runArgs, idx,
                   upward_paths, unique_upward_paths, batchVars, logs, pbar>>

\* lines 304-313
DownwardGenerate ==
    /\ pc = "downward"
    /\ gstate = "idle"
    /\ direction \in {"downward", "both"}
    /\ StartGenerator("down")
    /\ UNCHANGED <<mapVars, node, min_depth, max_depth, max_paths, trieVars, pc,
                   runVars>>

\* lines 313-336
DownwardCollect ==
    /\ pc = "downward"
    /\ gstate = "done"
    /\ \E sample \in Sampled(yielded) :
          /\ downward_paths' = sample
          /\ unique_downward_paths' = UniquePaths(sample)
    /\ DropGenerator
    /\ pc' = "combine"
    /\ UNCHANGED <<mapVars, genArgs, trieVars, runArgs, idx, upward_paths,
                   unique_upward_paths, batchVars, logs, pbar>>

\* lines 337-340
DownwardSkip ==
    /\ pc = "downward"
    /\ direction \notin {"downward", "both"}
    /\ pc' = "combine"
    /\ UNCHANGED <<mapVars, genArgs, dfsVars, trieVars, runVars>>

\* the fields of log_data that are counts or arguments (lines 530-542)
LogData ==
    [class |-> node,
     initial_upward_paths |-> Len(upward_paths),
     unique_upward_paths |-> Len(unique_upward_paths),
     initial_downward_paths |-> Len(downward_paths),
     unique_downward_paths |-> Len(unique_downward_paths),
     combined_paths |-> combined_paths_count,
     num_batches |-> num_batches,
     batch_size |-> batch_size,
     direction |-> direction]

\* lines 343-354
CombineBoth ==
    /\ pc = "combine"
    /\ direction = "both"
    /\ unique_upward_paths' \in Shuffles(unique_upward_paths)
    /\ unique_downward_paths' \in Shuffles(unique_downward_paths)
    /\ combined_paths_count' = 0
    /\ num_batches' = 0
    /\ batch_paths' = <<>>
    /\ emitted' = 0
    /\ pc' = "emit"
    /\ UNCHANGED <<mapVars, genArgs, dfsVars, trieVars, runArgs, idx,
                   upward_paths, downward_paths, class_files, logs, pbar>>

\* lines 406-416
CombineUpward ==
    /\ pc = "combine"
    /\ direction = "upward"
    /\ unique_upward_paths' \in Shuffles(unique_upward_paths)
    /\ combined_paths_count' = Len(unique_upward_paths)
    /\ num_batches' = 0
    /\ batch_paths' = <<>>
    /\ emitted' = 0
    /\ pc' = "emit"
    /\ UNCHANGED <<mapVars, genArgs, dfsVars, trieVars, runArgs, idx,
                   upward_paths, downward_paths, unique_downward_paths,
                   class_files, logs, pbar>>

\* lines 462-472
CombineDownward ==
    /\ pc = "combine"
    /\ direction = "downward"
    /\ unique_downward_paths' \in Shuffles(unique_downward_paths)
    /\ combined_paths_count' = Len(unique_downward_paths)
    /\ num_batches' = 0
    /\ batch_paths' = <<>>
    /\ emitted' = 0
    /\ pc' = "emit"
    /\ UNCHANGED <<mapVars, genArgs, dfsVars, trieVars, runArgs, idx,
                   upward_paths, downward_paths, unique_upward_paths,
                   class_files, logs, pbar>>

\* lines 517-522: no branch of the direction test matches
CombineInvalid ==
    /\ pc = "combine"
    /\ ~ValidDirection
    /\ combined_paths_count' = 0
    /\ num_batches' = 0
    /\ pc' = "summary"
    /\ UNCHANGED <<mapVars, genArgs, dfsVars, trieVars, runArgs, idx, pathVars,
                   emitted, batch_paths, class_files, logs, pbar>>

\* lines 366-383: one batch file; the write succeeds or raises (the except
\* branch only prints).  class_files records the attempt either way.
WriteBatch(rows) ==
    /\ num_batches' = num_batches + 1
    /\ \E ok \in BOOLEAN :
          class_files' = Append(class_files,
              [batch |-> num_batches + 1, rows |-> rows, written |-> ok])

\* a variant that leaves the flushed rows in the buffer
BufferKept(rows) == rows

\* lines 383, 439, 494: batch_paths = [] after the try/except of a flush,
\* whether the write succeeded or raised
BufferAfterFlush(rows) == <<>>

\* lines 356-365, 418-423, 474-478: append a path, the buffer is not full
EmitBuffer ==
    /\ pc = "emit"
    /\ emitted < NumToEmit
    /\ ~BatchFull(Append(batch_paths, EmittedPath(emitted + 1)))
    /\ batch_paths' = Append(batch_paths, EmittedPath(emitted + 1))
    /\ emitted' = emitted + 1
    /\ combined_paths_count' =
          IF direction = "both" THEN combined_paths_count + 1
          ELSE combined_paths_count
    /\ UNCHANGED <<mapVars, genArgs, dfsVars, trieVars, pc, runArgs, idx,
                   pathVars, num_batches, class_files, logs, pbar>>

\* lines 356-383, 418-439, 474-494: append a path, write the full buffer, reset
EmitFlush ==
    /\ pc = "emit"
    /\ emitted < NumToEmit
    /\ BatchFull(Append(batch_paths, EmittedPath(emitted + 1)))
    /\ WriteBatch(Append(batch_paths, EmittedPath(emitted + 1)))
    /\ batch_paths' = BufferAfterFlush(Append(batch_paths, EmittedPath(emitted + 1)))
    /\ emitted' = emitted + 1
    /\ combined_paths_count' =
          IF direction = "both" THEN combined_paths_count + 1
          ELSE combined_paths_count
    /\ UNCHANGED <<mapVars, genArgs, dfsVars, trieVars, pc, runArgs, idx,
                   pathVars, logs, pbar>>

\* lines 386-401, 442-457, 497-512: the remaining paths after the loop
FinalFlush ==
    /\ pc = "emit"
    /\ emitted = NumToEmit
    /\ batch_paths # <<>>
    /\ WriteBatch(batch_paths)
    /\ pc' = "summary"
    /\ UNCHANGED <<mapVars, genArgs, dfsVars, trieVars, runArgs, idx, pathVars,
                   emitted, batch_paths, combined_paths_count, logs, pbar>>

\* lines 386, 442, 497: nothing remains
NoFinalFlush ==
    /\ pc = "emit"
    /\ emitted = NumToEmit
    /\ batch_paths = <<>>
    /\ pc' = "summary"
    /\ UNCHANGED <<mapVars, genArgs, dfsVars, trieVars, runVars>>

\* lines 524-591: statistics, log file, deletion of the class's variables.
\* logs holds log_data itself; a failure to write the log file is caught and
\* changes nothing else (lines 572-573).
Summary ==
    /\ pc = "summary"
    /\ ValidDirection
    /\ logs' = Append(logs, LogData)
    /\ upward_paths' = <<>>
    /\ unique_upward_paths' = <<>>
    /\ downward_paths' = <<>>
    /\ unique_downward_paths' = <<>>
    /\ batch_paths' = <<>>
    /\ pbar' = pbar + 1
    /\ pc' = "loop"
    /\ UNCHANGED <<mapVars, genArgs, dfsVars, trieVars, runArgs, idx, emitted,
                   num_batches, combined_paths_count, class_files>>

\* lines 524-588: with no branch taken batch_paths was never bound, and
\* "del batch_paths" raises UnboundLocalError
SummaryThenCrash ==
    /\ pc = "summary"
    /\ ~ValidDirection
    /\ logs' = Append(logs, LogData)
    /\ pc' = "crashed"
    /\ UNCHANGED <<mapVars, genArgs, dfsVars, trieVars, runArgs, idx, pathVars,
                   batchVars, pbar>>

\* line 252: the class list is exhausted
Finish ==
    /\ pc = "loop"
    /\ idx = Len(classes)
    /\ pc' = "finished"
    /\ UNCHANGED <<mapVars, genArgs, dfsVars, trieVars, runVars>>

\* main, lines 685-696
CallSample ==
    /\ pc = "inverted"
    /\ pc' = "loop"
    /\ UNCHANGED <<mapVars, genArgs, dfsVars, trieVars, runVars>>

-----------------------------------------------------------------------------
(* The inputs of a run *)

MaxRunEdges == 2

MaxClasses == 2

MaxBatchSize == 3

\* a seed with two parents and two children
HourglassHierarchy == [child \in {3, 4, 5} |-> IF child = 3 THEN <<1, 2>> ELSE <<3>>]

\* m is one of the hierarchies a run is given
IsRunHierarchy(m) ==
    \/ \E es \in SeqsUpTo(Nodes \X Nodes, MaxRunEdges) : m = MappingOf(es, {})
    \/ m = ExampleHierarchy
    \/ m = HourglassHierarchy

NodesOf(c2p) ==
    Nodes \cup DOMAIN c2p \cup UNION {Range(c2p[c]) : c \in DOMAIN c2p}

\* the first num_classes keys of class_counts: distinct nodes
ClassLists(c2p) ==
    {cs \in SeqsUpTo(NodesOf(c2p), MaxClasses) : NoRepeat(cs)}

Directions == {"upward", "downward", "both", "sideways"}

RunDepthArgs == {None, Some(2)}

RunInit ==
    /\ IsRunHierarchy(child_to_parents)
    /\ parent_to_children = EmptyMapping
    /\ which = "up"
    /\ node = 0
    /\ min_depth \in RunDepthArgs
    /\ max_depth \in RunDepthArgs
    /\ max_paths \in PathsArgs
    /\ stack = <<>>
    /\ paths_generated = 0
    /\ yielded = <<>>
    /\ gstate = "idle"
    /\ trie = EmptyTrie
    /\ inserted = <<>>
    /\ all_paths = <<>>
    /\ pc = "loaded"
    /\ direction \in Directions
    /\ batch_size \in 0..MaxBatchSize
    /\ classes \in ClassLists(child_to_parents)
    /\ idx = 0
    /\ upward_paths = <<>>
    /\ unique_upward_paths = <<>>
    /\ downward_paths = <<>>
    /\ unique_downward_paths = <<>>
    /\ emitted = 0
    /\ batch_paths = <<>>
    /\ num_batches = 0
    /\ combined_paths_count = 0
    /\ class_files = <<>>
    /\ logs = <<>>
    /\ pbar = 0

RunNext ==
    \/ Invert
    \/ CallSample
    \/ ClassStart
    \/ UpwardGenerate
    \/ UpwardCollect
    \/ UpwardSkip
    \/ DownwardGenerate
    \/ DownwardCollect
    \/ DownwardSkip
    \/ DfsStep
    \/ CombineBoth
    \/ CombineUpward
    \/ CombineDownward
    \/ CombineInvalid
    \/ EmitBuffer
    \/ EmitFlush
    \/ FinalFlush
    \/ NoFinalFlush
    \/ Summary
    \/ SummaryThenCrash
    \/ Finish

RunSpec == RunInit /\ [][RunNext]_vars

-----------------------------------------------------------------------------
(* Properties of the combine and batch loop *)

RECURSIVE ConcatRows(_, _)
ConcatRows(files, k) ==
    IF k > Len(files) THEN <<>> ELSE files[k].rows \o ConcatRows(files, k + 1)

\* every path the combine loop of the current class has appended so far, in
\* order: the rows of the batches flushed, then the buffer
Produced ==
    ConcatRows(class_files, 1) \o (IF pc = "emit" THEN batch_paths ELSE <<>>)

RECURSIVE SumRows(_, _, _)
SumRows(files, k, wanted) ==
    IF k > Len(files) THEN 0
    ELSE (IF files[k].written \in wanted THEN Len(files[k].rows) ELSE 0)
         + SumRows(files, k + 1, wanted)

Combining == pc \in {"emit", "summary"}

\* C6: in mode "both" the combined paths number |unique upward| x |unique
\* downward|, and each holds the seed exactly once, at the 0-based index
\* len(upward path) - 1 (position len(upward path) counting from 1)
C6_BothProduct ==
    /\ (direction = "both" /\ Combining) =>
          /\ Len(Produced) = emitted
          /\ combined_paths_count = emitted
          /\ \A k \in 1..Len(Produced) :
                /\ Produced[k] = DropLast(Reverse(UpOf(k))) \o DownOf(k)
                /\ Count(node, Produced[k]) = 1
                /\ Produced[k][Len(UpOf(k))] = node
          /\ pc = "summary" =>
                combined_paths_count =
                    Len(unique_upward_paths) * Len(unique_downward_paths)
    /\ \A i \in 1..Len(logs) :
          logs[i].direction = "both" =>
              logs[i].combined_paths =
                  logs[i].unique_upward_paths * logs[i].unique_downward_paths

C6_Witness ==
    /\ direction = "both"
    /\ pc = "summary"
    /\ Len(unique_upward_paths) >= 2
    /\ Len(unique_downward_paths) >= 2
    /\ Len(Produced) = 4
    /\ \E k \in 1..4 : Len(UpOf(k)) >= 2 /\ Len(DownOf(k)) >= 2

\* the summary of the class whose batches class_files holds
Summarised == pc \in {"loop", "finished"} /\ logs # <<>>

\* C7 as stated: for every batch_size no batch has more than batch_size rows,
\* and the rows of the batches written sum to the combined_paths of the summary
C7_AsClaimed ==
    /\ \A i \in 1..Len(class_files) : Len(class_files[i].rows) <= batch_size
    /\ Summarised =>
          SumRows(class_files, 1, {TRUE}) = logs[Len(logs)].combined_paths

\* C7 amended: for batch_size >= 1 no batch has more than batch_size rows; the
\* rows of the batches flushed, written or failed, sum to the combined_paths
\* of the summary, and the rows written fall short of it by the failed rows
C7_BatchBound ==
    /\ batch_size >= 1 =>
          \A i \in 1..Len(class_files) : Len(class_files[i].rows) <= batch_size
    /\ Summarised =>
          /\ SumRows(class_files, 1, {TRUE, FALSE})
                = logs[Len(logs)].combined_paths
          /\ SumRows(class_files, 1, {TRUE})
                = logs[Len(logs)].combined_paths
                    - SumRows(class_files, 1, {FALSE})

C7_Witness ==
    /\ Summarised
    /\ batch_size >= 2
    /\ Len(class_files) >= 2
    /\ \E i \in 1..Len(class_files) : class_files[i].written
    /\ \E i \in 1..Len(class_files) : ~class_files[i].written
    /\ \E i \in 1..Len(class_files) : Len(class_files[i].rows) = batch_size
    /\ \E i \in 1..Len(class_files) : Len(class_files[i].rows) < batch_size

\* C10: in mode "upward" every path put into a batch is the reversal of a
\* unique upward path, and the seed is the first element of the emitted path
C10_UpwardSeedFirst ==
    (direction = "upward" /\ Combining) =>
        \A k \in 1..Len(Produced) :
            /\ Produced[k] = Reverse(unique_upward_paths[k])
            /\ Produced[k][1] = node

-----------------------------------------------------------------------------
(* Error handling of the class loop *)

\* C11: with a direction other than upward, downward or both every class is a
\* no-op (combined path count 0, batch count 0, no batch flushed) and the run
\* goes through all the classes without raising
C11_InvalidDirectionNoOp ==
    ~ValidDirection =>
        /\ pc # "crashed"
        /\ class_files = <<>>
        /\ \A i \in 1..Len(logs) :
              logs[i].combined_paths = 0 /\ logs[i].num_batches = 0
        /\ pc = "finished" => pbar = Len(classes)

\* C12: when the write of a batch fails its paths are dropped: they are not
\* carried into the next buffer nor written by a later batch (the k-th row
\* flushed or buffered is the k-th path appended, failed batches included),
\* every later path of the class still reaches a batch, and the class's summary
\* and the following classes are still processed
C12_FailedBatchDropped ==
    /\ (ValidDirection /\ Combining) =>
          /\ Len(Produced) = emitted
          /\ \A k \in 1..Len(Produced) : Produced[k] = EmittedPath(k)
          /\ num_batches = Len(class_files)
          /\ \A i \in 1..Len(class_files) : class_files[i].batch = i
          /\ pc = "summary" => emitted = NumToEmit
    /\ ValidDirection => pc # "crashed"
    /\ (ValidDirection /\ pc = "finished") =>
          /\ Len(logs) = Len(classes)
          /\ pbar = Len(classes)
          /\ \A i \in 1..Len(logs) : logs[i].class = classes[i]

\* the first batch of the last class failed, a later batch was still flushed,
\* and both classes were summarised
C12_Witness ==
    /\ pc = "finished"
    /\ Len(classes) = 2
    /\ Len(logs) = 2
    /\ Len(class_files) >= 2
    /\ ~class_files[1].written
    /\ class_files[2].written
    /\ logs[2].num_batches = Len(class_files)

-----------------------------------------------------------------------------
(* Frame of the generator *)

\* C13: the adjacency mappings are read-only: no step of generate_paths_dfs
\* changes the mapping it is given, neither its keys nor the order of any
\* neighbour list
C13_MappingsReadOnly == [][mapVars' = mapVars]_vars

-----------------------------------------------------------------------------
(* Prefix paths in the trie *)

\* C14: when a path P and a longer path with P as a proper prefix are both
\* inserted, in either order, traverse does not return P, and it returns the
\* longer path when that one is not a proper prefix of another inserted path
C14_PrefixDropped ==
    pc = "traversed" =>
        \A i, j \in 1..Len(inserted) :
            IsProperPrefix(inserted[i], inserted[j]) =>
                /\ inserted[i] \notin Range(all_paths)
                /\ (~\E q \in Range(inserted) : IsProperPrefix(inserted[j], q))
                      => inserted[j] \in Range(all_paths)

\* a prefix inserted before its extension and a prefix inserted after it
C14_Witness ==
    /\ pc = "traversed"
    /\ \E i, j \in 1..Len(inserted) :
          /\ i < j
          /\ inserted[i] # <<>>
          /\ IsProperPrefix(inserted[i], inserted[j])
          /\ inserted[j] \in Range(all_paths)
    /\ \E i, j \in 1..Len(inserted) :
          /\ i > j
          /\ IsProperPrefix(inserted[i], inserted[j])

-----------------------------------------------------------------------------
(* The sequence of batches of one class *)

\* ceil(n / size) for size >= 1
CeilDiv(n, size) == (n + size - 1) \div size

\* C15: for batch_size >= 1 the batches of a class are flushed in emission
\* order and numbered 1, 2, ... without gaps; every batch but the last holds
\* exactly batch_size paths, the last between 1 and batch_size, none is empty,
\* and the batch count reported for n emitted paths is ceil(n / batch_size)
C15_BatchSequence ==
    /\ (batch_size >= 1 /\ ValidDirection /\ Combining) =>
          /\ \A i \in 1..Len(class_files) :
                /\ class_files[i].batch = i
                /\ Len(class_files[i].rows) \in 1..batch_size
                /\ i < Len(class_files) =>
                      Len(class_files[i].rows) = batch_size
                /\ \A k \in 1..Len(class_files[i].rows) :
                      class_files[i].rows[k] =
                          EmittedPath((i - 1) * batch_size + k)
          /\ pc = "summary" =>
                /\ emitted = NumToEmit
                /\ num_batches = Len(class_files)
                /\ num_batches = CeilDiv(emitted, batch_size)
    /\ \A i \in 1..Len(logs) :
          logs[i].batch_size >= 1 =>
              logs[i].num_batches =
                  CeilDiv(logs[i].combined_paths, logs[i].batch_size)

\* four paths in batches of three: a full batch, then a final batch of one
C15_Witness ==
    /\ pc = "summary"
    /\ batch_size = 3
    /\ emitted = 4
    /\ Len(class_files) = 2
    /\ Len(class_files[1].rows) = 3
    /\ Len(class_files[2].rows) = 1

-----------------------------------------------------------------------------
(* Distinctness of the combined paths *)

\* C16: in mode "both" the combined paths produced for one class are pairwise
\* distinct: the unique upward and the unique downward paths hold no
\* duplicates, and two different (upward path, downward path) pairs, that is
\* two different passes of the nested loops, never give the same sequence
C16_CombinedDistinct ==
    (direction = "both" /\ Combining) =>
        /\ NoRepeat(unique_upward_paths)
        /\ NoRepeat(unique_downward_paths)
        /\ Len(Produced) = emitted
        /\ \A j, k \in 1..Len(Produced) : j # k => Produced[j] # Produced[k]

\* two upward and two downward paths gave four combined paths
C16_Witness ==
    /\ direction = "both"
    /\ pc = "summary"
    /\ Len(unique_upward_paths) >= 2
    /\ Len(unique_downward_paths) >= 2
    /\ Len(Produced) >= 4
    /\ \E j, k \in 1..Len(Produced) : UpOf(j) # UpOf(k) /\ DownOf(j) = DownOf(k)
    /\ \E j, k \in 1..Len(Produced) : UpOf(j) = UpOf(k) /\ DownOf(j) # DownOf(k)

-----------------------------------------------------------------------------
(* The yielded paths and the trie *)

\* C17: no yielded path is a proper prefix of another path yielded by the same
\* call, so the trie built from the raw paths drops nothing but exact
\* duplicates: the unique paths are the distinct raw sequences, as many
C17_NoPrefixAmongYielded ==
    /\ \A i, j \in 1..Len(yielded) : ~IsProperPrefix(yielded[i], yielded[j])
    /\ gstate = "done" =>
          /\ Range(UniquePaths(yielded)) = Range(yielded)
          /\ Len(UniquePaths(yielded)) = Cardinality(Range(yielded))

\* a finished call that yielded one path twice and another path once
C17_Witness ==
    /\ gstate = "done"
    /\ Len(yielded) = 3
    /\ \E i, j \in 1..Len(yielded) : i # j /\ yielded[i] = yielded[j]
    /\ \E i, j \in 1..Len(yielded) : yielded[i] # yielded[j]
    /\ Len(UniquePaths(yielded)) = 2

-----------------------------------------------------------------------------
(* max_paths_per_class and the sampling step *)

\* C18: with max_paths_per_class an integer >= 1 the raw list collected from
\* the generator never has more than max_paths_per_class entries, so the
\* sampling branch is never taken (the list is kept as it is) and the raw
\* counts of every summary are at most max_paths_per_class
C18_SamplingNeverRuns ==
    IF Truthy(max_paths)
    THEN /\ Len(yielded) <= max_paths[1]
         /\ (pc \in {"upward", "downward"} /\ gstate = "done") =>
               /\ ~(Len(yielded) > max_paths[1])
               /\ Sampled(yielded) = {yielded}
         /\ Len(upward_paths) <= max_paths[1]
         /\ Len(downward_paths) <= max_paths[1]
         /\ \A i \in 1..Len(logs) :
               /\ logs[i].initial_upward_paths <= max_paths[1]
               /\ logs[i].initial_downward_paths <= max_paths[1]
    ELSE TRUE

\* the generator was cut short by the limit and its list is about to be
\* collected
C18_Witness ==
    /\ Truthy(max_paths)
    /\ pc \in {"upward", "downward"}
    /\ gstate = "done"
    /\ stack # <<>>
    /\ Len(yielded) = max_paths[1]

-----------------------------------------------------------------------------
(* Independence of the yielded set from the shuffles *)

\* the complete paths within the depth limits that extend path, by the
\* neighbour sets alone: the order of no neighbour list enters
RECURSIVE PathsThrough(_)
PathsThrough(path) ==
    LET current == path[Len(path)]
    IN  IF TooDeep(path) THEN {}
        ELSE IF IsComplete(current)
             THEN (IF MeetsMinDepth(path) THEN {path} ELSE {})
             ELSE UNION {PathsThrough(Append(path, a)) :
                            a \in Range(mapping[current]) \ Range(path)}

\* C19: with max_paths unset the set of paths a finished call has yielded is
\* fixed by the start node, the neighbour sets of the mapping, min_depth and
\* max_depth, whatever the shuffles were: they change the order of the yields
\* only
C19_ShuffleIndependent ==
    (max_paths = None /\ gstate = "done") =>
        Range(yielded) = PathsThrough(<<node>>)

\* a finished call without max_paths whose shuffles reordered the mapping and
\* which yielded several paths
C19_Witness ==
    /\ max_paths = None
    /\ gstate = "done"
    /\ which = "down"
    /\ parent_to_children # invert_mapping(child_to_parents)
    /\ Cardinality(Range(yielded)) >= 2
    /\ \E i \in 1..Len(yielded) : Len(yielded[i]) >= 3

====
